---- MODULE Spec2Model ----
(***************************************************************************)
(* The two MEX kernels of oosiggen:                                        *)
(*   nonUniformResampleFast (non_uniform_resample_fast.cpp): zero-order    *)
(*   hold resampling of (x, y) at xi with a forward cursor ref_idx;        *)
(*   ppvalFastCore (ppval_fast_core.cpp): piecewise polynomial evaluation  *)
(*   with a clamped std::lower_bound lookup and Horner's rule.             *)
(*                                                                         *)
(* Array indices are the 0-based indices of the C++ code; At(s, i) is the  *)
(* element s[i] of the C++ array s.  Doubles are modelled by small         *)
(* integers: both kernels only compare, copy, subtract, multiply and add.  *)
(* size_t values are modelled by mathematical integers, so that a wrap     *)
(* below zero shows as a negative value.  A read outside an array is       *)
(* undefined behaviour and yields any value.                               *)
(*                                                                         *)
(* The argument checks of both gateways (lines 45-76 and 50-81) are the    *)
(* precondition of the model: Init draws only inputs that pass them.       *)
(***************************************************************************)
EXTENDS Integers, Sequences, FiniteSets, TLC

\* Bounds of the resampler model: longest x, largest x value, longest xi.
MaxAxisLen == 3
MaxAxisVal == 2
MaxQueries == 3
\* Longest xi of each of the two calls compared in SpecPair.
PairQueries == 2
\* Bounds of the evaluator model: most breaks, largest break value, largest
\* polynomial order, longest xx.
MaxBreaks == 3
MaxBreakVal == 3
MaxOrder == 2
MaxValues == 2

AxisVals == 1..MaxAxisVal
QueryVals == 0..(MaxAxisVal + 1)
\* Samples (real part, imaginary part); none of them is (0, 0).
SampleVals == {<<1, 0>>, <<2, 1>>}
BreakVals == 1..MaxBreakVal
EvalVals == 0..(MaxBreakVal + 1)
\* What a read outside the coefficient buffer may return.
StrayVals == {0, 1}

VARIABLES
    \* nonUniformResampleFast
    x, y_r, y_i, xi,                   \* inputs x, y (real, imaginary), xi
    ref_idx, resamp_idx, yi_r, yi_i,   \* locals and output buffers
    x_reads, y_reads,                  \* indices read so far from x and from y
    call, prev_xi, prev_yi,            \* call number; xi and output of the call before
    \* ppvalFastCore
    breaks, coefs, order, xx,          \* inputs breaks, coefs (column-major), xx
    out_idx, lookup_idx, delta_x, coef_idx, v,
    lb_first, lb_len,                  \* std::lower_bound's __first and __len
    idx_log,                           \* the lookup_idx chosen for each xx so far
    breaks_reads, coefs_reads,         \* indices read so far from breaks and coefs
    pc

rvars == <<x, y_r, y_i, xi, ref_idx, resamp_idx, yi_r, yi_i, x_reads, y_reads,
           call, prev_xi, prev_yi>>
pvars == <<breaks, coefs, order, xx, out_idx, lookup_idx, delta_x, coef_idx, v,
           lb_first, lb_len, idx_log, breaks_reads, coefs_reads>>
vars == <<rvars, pvars, pc>>

At(s, i) == s[i + 1]

SeqsUpTo(S, n) == UNION {[1..k -> S] : k \in 0..n}

NonDecreasing(s) == \A i \in 1..(Len(s) - 1) : s[i] <= s[i + 1]

\* A read of element i of array s: the element when i is inside the array,
\* any value of `stray' when the read is outside it.
ReadOf(s, i, stray) == IF i \in 0..(Len(s) - 1) THEN {At(s, i)} ELSE stray

(***************************************************************************)
(* nonUniformResampleFast                                                  *)
(***************************************************************************)
x_length == Len(x)
xi_length == Len(xi)

\* The evaluator's variables while the resampler runs.
IdleEvaluator ==
    /\ breaks = <<>> /\ coefs = <<>> /\ order = 0 /\ xx = <<>>
    /\ out_idx = 0 /\ lookup_idx = 0 /\ delta_x = 0 /\ coef_idx = 0
    /\ v = <<>> /\ lb_first = 0 /\ lb_len = 0 /\ idx_log = <<>>
    /\ breaks_reads = {} /\ coefs_reads = {}

\* The state at line 112 of a call with at most maxq resample points: x is a
\* non-decreasing column, y has the length of x, the output is zero-filled
\* by mxCreateDoubleMatrix.  When y is real, y_i and yi_i are the scratch
\* buffers of lines 89 and 108: y_i then holds arbitrary contents.
InitCall(maxq) ==
    /\ x \in {s \in SeqsUpTo(AxisVals, MaxAxisLen) : NonDecreasing(s)}
    /\ \E y \in [1..Len(x) -> SampleVals] :
          /\ y_r = [j \in 1..Len(x) |-> y[j][1]]
          /\ y_i = [j \in 1..Len(x) |-> y[j][2]]
    /\ xi \in SeqsUpTo(QueryVals, maxq)
    /\ ref_idx = 0
    /\ resamp_idx = 0
    /\ yi_r = [k \in 1..Len(xi) |-> 0]
    /\ yi_i = [k \in 1..Len(xi) |-> 0]
    /\ x_reads = {}
    /\ y_reads = {}
    /\ call = 1
    /\ prev_xi = <<>>
    /\ prev_yi = <<>>
    /\ pc = "for"
    /\ IdleEvaluator

InitResample == InitCall(MaxQueries)

\* for (...; resamp_idx < xi_length; ...)
ForCond == resamp_idx < xi_length

ForEnter ==
    /\ pc = "for"
    /\ ForCond
    /\ pc' = "while"
    /\ UNCHANGED <<rvars, pvars>>

ForExit ==
    /\ pc = "for"
    /\ ~ForCond
    /\ pc' = "done"
    /\ UNCHANGED <<rvars, pvars>>

\* while (ref_idx < x_length && x[ref_idx] <= xi[resamp_idx])
InAxisOffByOne == ref_idx <= x_length

InAxis == ref_idx < x_length

AtOrBeforeStrict(a, q) == a < q

AtOrBefore(a, q) == a <= q

\* The loop test holds: x[ref_idx] is read and ref_idx++.
WhileAdvance ==
    /\ pc = "while"
    /\ InAxis
    /\ \E a \in ReadOf(x, ref_idx, AxisVals) : AtOrBefore(a, At(xi, resamp_idx))
    /\ x_reads' = x_reads \cup {ref_idx}
    /\ ref_idx' = ref_idx + 1
    /\ UNCHANGED <<x, y_r, y_i, xi, resamp_idx, yi_r, yi_i, y_reads, call,
                   prev_xi, prev_yi, pvars, pc>>

\* The loop test fails: ref_idx reached x_length (x is not read), or the
\* element read lies beyond the resample point.
WhileExit ==
    /\ pc = "while"
    /\ IF InAxis
       THEN /\ \E a \in ReadOf(x, ref_idx, AxisVals) :
                  ~AtOrBefore(a, At(xi, resamp_idx))
            /\ x_reads' = x_reads \cup {ref_idx}
       ELSE x_reads' = x_reads
    /\ pc' = "if"
    /\ UNCHANGED <<x, y_r, y_i, xi, ref_idx, resamp_idx, yi_r, yi_i, y_reads,
                   call, prev_xi, prev_yi, pvars>>

\* if (ref_idx == 0)
NoneBehind == ref_idx = 0

\* yi_r[resamp_idx] = 0.0; yi_i[resamp_idx] = 0.0; continue;
ZeroFill ==
    /\ pc = "if"
    /\ NoneBehind
    /\ yi_r' = [yi_r EXCEPT ![resamp_idx + 1] = 0]
    /\ yi_i' = [yi_i EXCEPT ![resamp_idx + 1] = 0]
    /\ resamp_idx' = resamp_idx + 1
    /\ pc' = "for"
    /\ UNCHANGED <<x, y_r, y_i, xi, ref_idx, x_reads, y_reads, call, prev_xi,
                   prev_yi, pvars>>

\* ref_idx--; yi_r[resamp_idx] = y_r[ref_idx]; yi_i[resamp_idx] = y_i[ref_idx];
CopySample ==
    /\ pc = "if"
    /\ ~NoneBehind
    /\ ref_idx' = ref_idx - 1
    /\ y_reads' = y_reads \cup {ref_idx'}
    /\ \E re \in ReadOf(y_r, ref_idx', {1, 2}), im \in ReadOf(y_i, ref_idx', {0, 1}) :
          /\ yi_r' = [yi_r EXCEPT ![resamp_idx + 1] = re]
          /\ yi_i' = [yi_i EXCEPT ![resamp_idx + 1] = im]
    /\ resamp_idx' = resamp_idx + 1
    /\ pc' = "for"
    /\ UNCHANGED <<x, y_r, y_i, xi, x_reads, call, prev_xi, prev_yi, pvars>>

NextResample ==
    ForEnter \/ ForExit \/ WhileAdvance \/ WhileExit \/ ZeroFill \/ CopySample

Spec == InitResample /\ [][NextResample]_vars

\* The caller resamples the same (x, y) a second time at other points: the
\* gateway is entered again, with ref_idx = 0 and a fresh output.
CallAgain ==
    /\ pc = "done"
    /\ call = 1
    /\ call' = 2
    /\ prev_xi' = xi
    /\ prev_yi' = [k \in 1..Len(xi) |-> <<yi_r[k], yi_i[k]>>]
    /\ xi' \in SeqsUpTo(QueryVals, PairQueries)
    /\ ref_idx' = 0
    /\ resamp_idx' = 0
    /\ yi_r' = [k \in 1..Len(xi') |-> 0]
    /\ yi_i' = [k \in 1..Len(xi') |-> 0]
    /\ pc' = "for"
    /\ UNCHANGED <<x, y_r, y_i, x_reads, y_reads, pvars>>

InitPair == InitCall(PairQueries)

NextPair == NextResample \/ CallAgain

SpecPair == InitPair /\ [][NextPair]_vars

(***************************************************************************)
(* ppvalFastCore                                                           *)
(***************************************************************************)
num_breaks == Len(breaks)
num_polynomials == num_breaks - 1
num_values == Len(xx)

\* The resampler's variables while the evaluator runs.
IdleResampler ==
    /\ x = <<>> /\ y_r = <<>> /\ y_i = <<>> /\ xi = <<>>
    /\ ref_idx = 0 /\ resamp_idx = 0 /\ yi_r = <<>> /\ yi_i = <<>>
    /\ x_reads = {} /\ y_reads = {}
    /\ call = 1 /\ prev_xi = <<>> /\ prev_yi = <<>>

\* The coefficient buffers of n entries the model evaluates: the entries
\* are pairwise distinct, numbered upwards or downwards, so that the value
\* computed tells which entries were used.
CoefBuffers(n) == {[k \in 1..n |-> k], [k \in 1..n |-> n + 1 - k]}

\* The state at line 97: breaks is a non-decreasing row of at least two
\* entries, coefs holds num_polynomials * order entries column by column,
\* the output is zero-filled by mxCreateDoubleMatrix.
InitEval ==
    /\ breaks \in {s \in SeqsUpTo(BreakVals, MaxBreaks) :
                      Len(s) >= 2 /\ NonDecreasing(s)}
    /\ order \in 1..MaxOrder
    /\ coefs \in CoefBuffers((Len(breaks) - 1) * order)
    /\ xx \in SeqsUpTo(EvalVals, MaxValues)
    /\ out_idx = 0
    /\ lookup_idx = 0
    /\ delta_x = 0
    /\ coef_idx = 0
    /\ v = [k \in 1..Len(xx) |-> 0]
    /\ lb_first = 0
    /\ lb_len = 0
    /\ idx_log = <<>>
    /\ breaks_reads = {}
    /\ coefs_reads = {}
    /\ pc = "p_for"
    /\ IdleResampler

\* for (...; out_idx < num_values; ...)
EvalForEnter ==
    /\ pc = "p_for"
    /\ out_idx < num_values
    /\ pc' = "p_bin"
    /\ UNCHANGED <<rvars, pvars>>

EvalForExit ==
    /\ pc = "p_for"
    /\ ~(out_idx < num_values)
    /\ pc' = "p_done"
    /\ UNCHANGED <<rvars, pvars>>

\* const double x = xx[out_idx];
xq == At(xx, out_idx)

\* if (x <= breaks[0])
BeforeFirst(q, b) == q <= b

\* else if (x > breaks[num_breaks - 1])
AfterLast(q, b) == q > b

\* lookup_idx = 0;
FirstBin == 0

\* lookup_idx = num_breaks - 1;
LastBinCopied == FirstBin

LastBin == num_breaks - 1

ClampLow ==
    /\ pc = "p_bin"
    /\ \E b \in ReadOf(breaks, 0, BreakVals) : BeforeFirst(xq, b)
    /\ breaks_reads' = breaks_reads \cup {0}
    /\ lookup_idx' = FirstBin
    /\ idx_log' = Append(idx_log, lookup_idx')
    /\ pc' = "p_eval"
    /\ UNCHANGED <<rvars, breaks, coefs, order, xx, out_idx, delta_x,
                   coef_idx, v, lb_first, lb_len, coefs_reads>>

ClampHigh ==
    /\ pc = "p_bin"
    /\ \E b \in ReadOf(breaks, 0, BreakVals) : ~BeforeFirst(xq, b)
    /\ \E b \in ReadOf(breaks, num_breaks - 1, BreakVals) : AfterLast(xq, b)
    /\ breaks_reads' = breaks_reads \cup {0, num_breaks - 1}
    /\ lookup_idx' = LastBin
    /\ idx_log' = Append(idx_log, lookup_idx')
    /\ pc' = "p_eval"
    /\ UNCHANGED <<rvars, breaks, coefs, order, xx, out_idx, delta_x,
                   coef_idx, v, lb_first, lb_len, coefs_reads>>

\* std::lower_bound(&breaks[0], &breaks[num_breaks], x) is entered:
\* __first = &breaks[0], __len = num_breaks.
SearchStart ==
    /\ pc = "p_bin"
    /\ \E b \in ReadOf(breaks, 0, BreakVals) : ~BeforeFirst(xq, b)
    /\ \E b \in ReadOf(breaks, num_breaks - 1, BreakVals) : ~AfterLast(xq, b)
    /\ breaks_reads' = breaks_reads \cup {0, num_breaks - 1}
    /\ lb_first' = 0
    /\ lb_len' = num_breaks
    /\ pc' = "p_search"
    /\ UNCHANGED <<rvars, breaks, coefs, order, xx, out_idx, lookup_idx,
                   delta_x, coef_idx, v, idx_log, coefs_reads>>

\* The comparison of std::lower_bound: *__middle < __val.
LessOrEqual(a, q) == a <= q

Less(a, q) == a < q

\* One halving of std::lower_bound: __half = __len >> 1; __middle = __first
\* + __half; if (*__middle < __val) { __first = __middle + 1; __len = __len
\* - __half - 1; } else __len = __half;
SearchStep ==
    /\ pc = "p_search"
    /\ lb_len > 0
    /\ LET half == lb_len \div 2
           mid == lb_first + half
       IN  /\ breaks_reads' = breaks_reads \cup {mid}
           /\ \E b \in ReadOf(breaks, mid, BreakVals) :
                 IF Less(b, xq)
                 THEN /\ lb_first' = mid + 1
                      /\ lb_len' = lb_len - half - 1
                 ELSE /\ lb_first' = lb_first
                      /\ lb_len' = half
    /\ UNCHANGED <<rvars, breaks, coefs, order, xx, out_idx, lookup_idx,
                   delta_x, coef_idx, v, idx_log, coefs_reads, pc>>

\* lower_bound returns __first; lookup_idx = it - &breaks[0] - 1;
SearchEnd ==
    /\ pc = "p_search"
    /\ lb_len = 0
    /\ lookup_idx' = lb_first - 1
    /\ idx_log' = Append(idx_log, lookup_idx')
    /\ pc' = "p_eval"
    /\ UNCHANGED <<rvars, breaks, coefs, order, xx, out_idx, delta_x,
                   coef_idx, v, lb_first, lb_len, breaks_reads, coefs_reads>>

\* The position in coefs of coefficient coef_idx of polynomial lookup_idx.
CoefPos(i, c) == i + c * num_polynomials

\* const double delta_x = x - breaks[lookup_idx]; v[out_idx] = coefs[lookup_idx];
EvalStart ==
    /\ pc = "p_eval"
    /\ breaks_reads' = breaks_reads \cup {lookup_idx}
    /\ coefs_reads' = coefs_reads \cup {lookup_idx}
    /\ \E b \in ReadOf(breaks, lookup_idx, BreakVals) : delta_x' = xq - b
    /\ \E c \in ReadOf(coefs, lookup_idx, StrayVals) :
          v' = [v EXCEPT ![out_idx + 1] = c]
    /\ coef_idx' = 1
    /\ pc' = "p_horner"
    /\ UNCHANGED <<rvars, breaks, coefs, order, xx, out_idx, lookup_idx,
                   lb_first, lb_len, idx_log>>

\* for (coef_idx = 1; coef_idx < order; ++coef_idx)
\*     v[out_idx] = delta_x * v[out_idx] + coefs[lookup_idx + coef_idx * num_polynomials];
HornerStep ==
    /\ pc = "p_horner"
    /\ coef_idx < order
    /\ coefs_reads' = coefs_reads \cup {CoefPos(lookup_idx, coef_idx)}
    /\ \E c \in ReadOf(coefs, CoefPos(lookup_idx, coef_idx), StrayVals) :
          v' = [v EXCEPT ![out_idx + 1] = delta_x * @ + c]
    /\ coef_idx' = coef_idx + 1
    /\ UNCHANGED <<rvars, breaks, coefs, order, xx, out_idx, lookup_idx,
                   delta_x, lb_first, lb_len, idx_log, breaks_reads, pc>>

HornerEnd ==
    /\ pc = "p_horner"
    /\ ~(coef_idx < order)
    /\ out_idx' = out_idx + 1
    /\ pc' = "p_for"
    /\ UNCHANGED <<rvars, breaks, coefs, order, xx, lookup_idx, delta_x,
                   coef_idx, v, lb_first, lb_len, idx_log, breaks_reads,
                   coefs_reads>>

NextEval ==
    \/ EvalForEnter \/ EvalForExit
    \/ ClampLow \/ ClampHigh \/ SearchStart \/ SearchStep \/ SearchEnd
    \/ EvalStart \/ HornerStep \/ HornerEnd

SpecEval == InitEval /\ [][NextEval]_vars

(***************************************************************************)
(* Properties of nonUniformResampleFast                                    *)
(***************************************************************************)
\* The output positions written so far.
Written == 0..(resamp_idx - 1)

Output(k) == <<At(yi_r, k), At(yi_i, k)>>

Sample(j) == <<At(y_r, j), At(y_i, j)>>

\* Convention A: the indices of x at or before q, and the greatest of them.
Behind(q) == {j \in 0..(x_length - 1) : At(x, j) <= q}

LastBehind(q) == CHOOSE j \in Behind(q) : \A i \in Behind(q) : i <= j

ConventionA(q) == IF Behind(q) = {} THEN <<0, 0>> ELSE Sample(LastBehind(q))

\* C1: every resample point that has a reference point at or before it gets
\* the sample of the greatest such reference point, whatever the order of xi.
StepFound ==
    \A k \in Written :
        Behind(At(xi, k)) # {} => Output(k) = Sample(LastBehind(At(xi, k)))

\* C2: every resample point strictly before all of x gets (0, 0), whatever
\* the order of xi, and the call still writes every later output.
StepNotFound ==
    /\ \A k \in Written : Behind(At(xi, k)) = {} => Output(k) = <<0, 0>>
    /\ pc = "done" => resamp_idx = xi_length

\* C7: two calls on the same (x, y) whose resample points agree at position
\* k write the same output at position k.
CallsAgree ==
    call = 2 =>
        \A k \in Written :
            (k < Len(prev_xi) /\ At(prev_xi, k) = At(xi, k))
                => At(prev_yi, k) = Output(k)

\* C8: when xi is non-decreasing, every output written is the Convention A
\* result of its resample point, and between two points the cursor rests on
\* the reference point found for the last one (on 0 when none was found).
ForwardCursor ==
    NonDecreasing(xi) =>
        /\ \A k \in Written : Output(k) = ConventionA(At(xi, k))
        /\ (pc = "for" /\ resamp_idx > 0) =>
              ref_idx = IF Behind(At(xi, resamp_idx - 1)) = {} THEN 0
                        ELSE LastBehind(At(xi, resamp_idx - 1))

ForwardCursorWitness ==
    /\ pc = "done"
    /\ NonDecreasing(xi)
    /\ xi_length >= 3
    /\ x_length >= 3
    /\ \E k \in Written : Behind(At(xi, k)) = {}
    /\ \E k \in Written : k + 1 \in Written /\ At(xi, k) = At(xi, k + 1)
    /\ \E k \in Written :
          /\ Behind(At(xi, k)) # {}
          /\ LastBehind(At(xi, k)) >= 1
          /\ At(x, LastBehind(At(xi, k))) = At(xi, k)
          /\ At(x, LastBehind(At(xi, k)) - 1) = At(xi, k)

\* C9: the cursor never goes below 0 nor above x_length, x is only read
\* inside [0, x_length - 1], y is only read inside [0, x_length - 1], and
\* between two resample points the cursor is in [0, max(x_length - 1, 0)],
\* whatever the order of xi.
CursorBounds ==
    /\ ref_idx >= 0
    /\ ref_idx <= x_length
    /\ x_reads \subseteq 0..(x_length - 1)
    /\ y_reads \subseteq 0..(x_length - 1)
    /\ pc \in {"for", "done"} =>
          ref_idx <= IF x_length >= 1 THEN x_length - 1 ELSE 0

CursorBoundsWitness ==
    /\ pc = "if"
    /\ ~NonDecreasing(xi)
    /\ x_length >= 2
    /\ ref_idx = x_length
    /\ resamp_idx >= 2
    /\ x_reads = 0..(x_length - 1)
    /\ y_reads # {}

(***************************************************************************)
(* Properties of ppvalFastCore                                             *)
(***************************************************************************)
\* The values of xx whose interval index has been chosen so far.
Located == 0..(Len(idx_log) - 1)

\* Convention B: 0 at or before the first break, the last coefficient row
\* after the last break, else the i with breaks[i] < q <= breaks[i + 1].
ConventionB(q) ==
    IF q <= At(breaks, 0) THEN 0
    ELSE IF q > At(breaks, num_breaks - 1) THEN num_breaks - 2
    ELSE CHOOSE i \in 0..(num_breaks - 2) :
            At(breaks, i) < q /\ q <= At(breaks, i + 1)

\* CoefficientTable[i][c]: row i, column c of the (N - 1) x O matrix that
\* MATLAB stores column by column in coefs.
Coefficient(i, c) == At(coefs, i + c * (num_breaks - 1))

\* acc_0 = CoefficientTable[i][0], acc_c = acc_{c-1} * d + CoefficientTable[i][c].
RECURSIVE Horner(_, _, _)
Horner(i, d, c) ==
    IF c = 0 THEN Coefficient(i, 0)
    ELSE Horner(i, d, c - 1) * d + Coefficient(i, c)

\* C3: every interval index chosen lies in [0, N - 2], and a value after
\* the last break gets index N - 2.
UpperClamp ==
    \A k \in Located :
        /\ At(idx_log, k) \in 0..(num_breaks - 2)
        /\ At(xx, k) > At(breaks, num_breaks - 1)
              => At(idx_log, k) = num_breaks - 2

\* C4: a value at or before the first break gets index 0, and a value q
\* after the first break and at or before the last one gets the index i
\* with breaks[i] < q <= breaks[i + 1].
LowerAndInterior ==
    \A k \in Located :
        LET q == At(xx, k)
            i == At(idx_log, k)
        IN  /\ q <= At(breaks, 0) => i = 0
            /\ (At(breaks, 0) < q /\ q <= At(breaks, num_breaks - 1)) =>
                  /\ i \in 0..(num_breaks - 2)
                  /\ At(breaks, i) < q
                  /\ q <= At(breaks, i + 1)

LowerAndInteriorWitness ==
    /\ pc = "p_done"
    /\ num_breaks >= 3
    /\ At(breaks, 0) < At(breaks, 1)
    /\ At(breaks, 1) < At(breaks, 2)
    /\ \E k \in Located : At(xx, k) = At(breaks, 0) /\ At(idx_log, k) = 0
    /\ \E k \in Located : At(xx, k) = At(breaks, 1) /\ At(idx_log, k) = 0

\* C5: every value written is the Horner accumulation over the row of the
\* Convention B index i of its point q, at the offset d = q - breaks[i].
HornerValue ==
    \A k \in 0..(out_idx - 1) :
        LET q == At(xx, k)
            i == ConventionB(q)
        IN  At(v, k) = Horner(i, q - At(breaks, i), order - 1)

\* C6: of two values q1 <= q2 of one call, q1 gets an interval index that
\* is at most the index of q2.
IndexMonotone ==
    \A k1, k2 \in Located :
        At(xx, k1) <= At(xx, k2) => At(idx_log, k1) <= At(idx_log, k2)

IndexMonotoneWitness ==
    /\ pc = "p_done"
    /\ num_breaks >= 3
    /\ \E k1, k2 \in Located :
          /\ k2 < k1
          /\ At(xx, k1) < At(xx, k2)
          /\ At(xx, k2) > At(breaks, num_breaks - 1)
          /\ At(xx, k1) > At(breaks, 0)
          /\ At(idx_log, k1) < At(idx_log, k2)

\* C10: every position read from coefs lies in [0, (N - 1) * O - 1] and
\* every position read from breaks lies in [0, N - 1].
ReadsInBounds ==
    /\ coefs_reads \subseteq 0..((num_breaks - 1) * order - 1)
    /\ breaks_reads \subseteq 0..(num_breaks - 1)
====
